---- MODULE Spec2Model ----
(***************************************************************************)
(* Resource<T,Q> (Data | Query | Empty | Failure) and Validation<T>        *)
(* (Passing | Failing): the current revision of unions/Resource.ts and     *)
(* unions/Validation.ts.                                                   *)
(*                                                                         *)
(* Instances live on a heap (a sequence of objects); a reference is an     *)
(* index into it.  `return this` returns the receiver's reference, a       *)
(* static factory (`new`) appends a fresh object.  Every method is an      *)
(* operator from (heap, receiver, arguments) to an outcome: the heap       *)
(* after the call and either the returned reference or the thrown value.   *)
(* One action per method call; `last` records the call just made.          *)
(* `promises` holds the calls of overPromise: the upstream promise, the    *)
(* reaction job of its `then`, and the promise returned to the caller.     *)
(***************************************************************************)
EXTENDS Integers, Sequences, FiniteSets, TLC

VARIABLES heap, last, promises

vars == <<heap, last, promises>>

\* Largest number of instances alive at once.
MaxHeap == 3
\* Largest number of calls of overPromise.
MaxPromises == 2
\* Largest number of Validations alive at once where concat is exercised.
MaxConcatHeap == 5

(***************************************************************************)
(* JavaScript values held by Data / Passing, and thrown values.            *)
(***************************************************************************)
Num(i) == [k |-> "number", n |-> i]
Fn(name) == [k |-> "function", name |-> name]
Str(s) == [k |-> "string", s |-> s]
Undefined == [k |-> "undefined"]
Bool(b) == [k |-> "boolean", b |-> b]

\* The values passed to of and getDataOr.
PlainInputs == {Num(5), Str("some string")}

\* typeof x
typeof(x) == x.k

\* Thrown values: new Error(m), a string, null, undefined, and an object
\* without a prototype (Object.create(null)), which has no toString.
Err(m) == [k |-> "Error", s |-> m]
StrErr(m) == [k |-> "string", s |-> m]
NullErr == [k |-> "null", s |-> ""]
UndefErr == [k |-> "undefined", s |-> ""]
NullProtoErr == [k |-> "nullproto", s |-> ""]
TypeErr(m) == [k |-> "Error", s |-> m]
NoErr == [k |-> "none", s |-> ""]

\* Results of evaluating an expression: a value or a thrown value.
Value(v) == [kind |-> "return", val |-> v, err |-> NoErr]
Raise(e) == [kind |-> "throw", val |-> Num(0), err |-> e]

\* String(error): ToString of the thrown value.  ToPrimitive of an object
\* with neither toString nor valueOf throws a TypeError.
String(e) ==
  CASE e.k = "string" -> Value(e.s)
    [] e.k = "null" -> Value("null")
    [] e.k = "undefined" -> Value("undefined")
    [] e.k = "Error" -> Value("Error: " \o e.s)
    [] e.k = "nullproto" -> Raise(TypeErr("Cannot convert object to primitive value"))

\* error instanceof Error ? error.message : String(error)
ErrorMessage(e) ==
  IF e.k = "Error" THEN Value(e.s) ELSE String(e)

(***************************************************************************)
(* The caller's functions.  fn(x) for the functions passed to map and      *)
(* mapSafe and held by a Data for ap.                                      *)
(***************************************************************************)
Fns == {"id", "addOne", "double", "throwError", "throwString", "throwNull",
        "throwNullProto"}

\* The unary functions that return: x => x, x => x + 1, x => x * 2.
BaseFns == {"id", "addOne", "double"}

\* compose(f, g) = x => f(g(x)), by name.
Composed(f, g) == f \o "." \o g
ComposedFns == {Composed(f, g) : f \in BaseFns, g \in BaseFns}

\* The curried compose, f => g => x => f(g(x)), and compose(f), by name.
Curried(f) == "compose(" \o f \o ")"
CurriedFns == {Curried(f) : f \in BaseFns}

\* fn => fn(y), by name.
ApplyTo(y) ==
  "applyTo(" \o (IF typeof(y) = "number" THEN ToString(y.n) ELSE y.s) \o ")"
ApplyToFns == {ApplyTo(y) : y \in PlainInputs}

\* The functions a Data is constructed with (the function side of ap).
HeldFns == {"id", "addOne"}

\* addOne is typed (x: number) => number: it is applied to numbers only.
\* so is double.
Applicable(fn, x) == fn \in {"addOne", "double"} => typeof(x) = "number"

RECURSIVE Call(_, _)
Call(fn, x) ==
  CASE fn = "id" -> Value(x)
    [] fn = "addOne" -> Value(Num(x.n + 1))
    [] fn = "double" -> Value(Num(x.n * 2))
    [] fn \in ComposedFns ->
         LET p == CHOOSE p \in BaseFns \X BaseFns : Composed(p[1], p[2]) = fn
             inner == Call(p[2], x)
         IN  IF inner.kind = "throw" THEN inner ELSE Call(p[1], inner.val)
    [] fn = "compose" -> Value(Fn(Curried(x.name)))
    [] fn \in CurriedFns ->
         Value(Fn(Composed(CHOOSE f \in BaseFns : Curried(f) = fn, x.name)))
    [] fn \in ApplyToFns ->
         Call(x.name, CHOOSE y \in PlainInputs : ApplyTo(y) = fn)
    [] fn = "throwError" -> Raise(Err("boom"))
    [] fn = "throwString" -> Raise(StrErr("oops"))
    [] fn = "throwNull" -> Raise(NullErr)
    [] fn = "throwNullProto" -> Raise(NullProtoErr)

(***************************************************************************)
(* Params: absent (undefined) or an object.                                *)
(***************************************************************************)
NoParams == "undefined"
Params == {NoParams, "p1"}
\* The params the caller's chain functions build their result with.
InnerParams == "inner"

(***************************************************************************)
(* Outcomes of a method call.                                              *)
(***************************************************************************)
\* `called` lists the caller's functions the method invoked, in order.
\* return <existing reference>
\* `val` is the returned value of a method that returns no instance.
Ret(h, ref) ==
  [heap |-> h, kind |-> "return", ref |-> ref, val |-> Undefined,
   err |-> NoErr, called |-> <<>>]
\* return new C(...)
New(h, obj) ==
  [heap |-> Append(h, obj), kind |-> "return", ref |-> Len(h) + 1,
   val |-> Undefined, err |-> NoErr, called |-> <<>>]
\* throw e
Throw(h, e) ==
  [heap |-> h, kind |-> "throw", ref |-> 0, val |-> Undefined, err |-> e,
   called |-> <<>>]
\* return <a value that is not an instance>
RetValue(h, v) ==
  [heap |-> h, kind |-> "return", ref |-> 0, val |-> v, err |-> NoErr,
   called |-> <<>>]
\* The outcome of code that first invoked the caller's function fn.
Invoked(fn, out) == [out EXCEPT !.called = <<fn>> \o @]

(***************************************************************************)
(* Static factories.                                                       *)
(***************************************************************************)
DataObj(value, params) == [type |-> "Data", value |-> value, params |-> params]
QueryObj(params) == [type |-> "Query", params |-> params]
EmptyObj(params) == [type |-> "Empty", params |-> params]
FailureObj(messages, params) ==
  [type |-> "Failure", messages |-> messages, params |-> params]

DataOf(h, value, params) == New(h, DataObj(value, params))
QueryOf(h, params) == New(h, QueryObj(params))
EmptyOf(h, params) == New(h, EmptyObj(params))
FailureOf(h, messages, params) == New(h, FailureObj(messages, params))

PassingObj(value) == [type |-> "Passing", value |-> value]
FailingObj(messages) == [type |-> "Failing", messages |-> messages]
PassingOf(h, value) == New(h, PassingObj(value))
FailingOf(h, messages) == New(h, FailingObj(messages))

ResourceTypes == {"Data", "Query", "Empty", "Failure"}
ValidationTypes == {"Passing", "Failing"}

(***************************************************************************)
(* The caller's chain functions, fn: Data -> Resource, applied to the      *)
(* reference d of a Data.                                                  *)
(***************************************************************************)
ChainFns == {"ofValue", "self", "innerData", "innerQuery", "innerFailure",
             "throwError"}

(***************************************************************************)
(* Patterns: the branches the caller supplies, by name.  Every branch      *)
(* returns a value that tells which branch it is and what it was called    *)
(* with.                                                                   *)
(***************************************************************************)
ResourcePattern == {"Data", "Query", "Empty", "Failure"}
ValidationPattern == {"Passing", "Failing"}

BranchResult(branch, ref) ==
  [k |-> "branchResult", branch |-> branch, arg |-> ref]

\* pattern.<branch>(instance); calling a branch the pattern lacks throws.
CallBranch(h, pattern, branch, ref) ==
  IF branch \in pattern
  THEN Invoked(branch, RetValue(h, BranchResult(branch, ref)))
  ELSE Throw(h, TypeErr("pattern." \o branch \o " is not a function"))

\* if (pattern.<branch>) { pattern.<branch>(this); }
CallBranchIfSupplied(h, pattern, branch, ref) ==
  IF branch \in pattern
  THEN [CallBranch(h, pattern, branch, ref) EXCEPT !.val = Undefined]
  ELSE RetValue(h, Undefined)

(***************************************************************************)
(* class Query                                                             *)
(***************************************************************************)
\* Mutant of QueryMap: an equal copy instead of this.
QueryMapCopies(h, self, fn) == QueryOf(h, h[self].params)

QueryMap(h, self, fn) == Ret(h, self)

QueryMapSafe(h, self, fn) == Ret(h, self)

QueryChain(h, self, fn) == Ret(h, self)

QueryAp(h, self, resourceWithValue) == QueryOf(h, h[resourceWithValue].params)

\* public of<R>(value: R): Data<R, Q>
QueryInstOf(h, self, value) == DataOf(h, value, h[self].params)

QueryUpdate(h, self, params) == QueryOf(h, params)

QueryGetDataOr(h, self, value) == RetValue(h, value)

QueryMatchWith(h, self, pattern) == CallBranch(h, pattern, "Query", self)

QueryMatchWithPartial(h, self, pattern) ==
  CallBranchIfSupplied(h, pattern, "Query", self)

(***************************************************************************)
(* class Data                                                              *)
(***************************************************************************)
\* Mutant of DataMap: a thrown error is caught and demoted to a Failure.
DataMapCatching(h, self, fn) ==
  LET result == Call(fn, h[self].value)
  IN  Invoked(fn, IF result.kind = "throw"
                  THEN FailureOf(h, <<result.err.s>>, h[self].params)
                  ELSE DataOf(h, result.val, h[self].params))

\* Mutant of DataMap: the receiver's params are not passed on.
DataMapDropsParams(h, self, fn) ==
  LET result == Call(fn, h[self].value)
  IN  Invoked(fn, IF result.kind = "throw"
                  THEN Throw(h, result.err)
                  ELSE DataOf(h, result.val, NoParams))

\* Mutant of DataMap: fn is applied twice.
DataMapTwice(h, self, fn) ==
  LET once == Call(fn, h[self].value)
      result == IF once.kind = "throw" THEN once ELSE Call(fn, once.val)
  IN  Invoked(fn, IF result.kind = "throw"
                  THEN Throw(h, result.err)
                  ELSE DataOf(h, result.val, h[self].params))

DataMap(h, self, fn) ==
  LET result == Call(fn, h[self].value)
  IN  Invoked(fn, IF result.kind = "throw"
                  THEN Throw(h, result.err)
                  ELSE DataOf(h, result.val, h[self].params))

DataMapSafe(h, self, fn) ==
  LET result == Call(fn, h[self].value)
  IN  Invoked(fn,
        IF result.kind = "return"
        THEN DataOf(h, result.val, h[self].params)
        ELSE LET message == ErrorMessage(result.err)
             IN  IF message.kind = "throw"
                 THEN Throw(h, message.err)
                 ELSE FailureOf(h, <<message.val>>, h[self].params))

\* Mutant of DataInstOf: the receiver's params are not passed on.
DataInstOfNoParams(h, self, value) == DataOf(h, value, NoParams)

\* public of<R>(value: R): Data<R, Q>
DataInstOf(h, self, value) == DataOf(h, value, h[self].params)

\* fn(d) for the caller's chain functions.
ChainFnResult(h, fn, d) ==
  CASE fn = "ofValue" -> DataInstOf(h, d, h[d].value)
    [] fn = "self" -> Ret(h, d)
    [] fn = "innerData" -> DataOf(h, Num(200), InnerParams)
    [] fn = "innerQuery" -> QueryOf(h, InnerParams)
    [] fn = "innerFailure" -> FailureOf(h, <<"inner fail">>, InnerParams)
    [] fn = "throwError" -> Throw(h, Err("boom"))

ApplyChainFn(h, fn, d) == Invoked(fn, ChainFnResult(h, fn, d))

\* Mutant of DataChain: what fn returns is re-wrapped with this.params.
DataChainOwnParams(h, self, fn) ==
  LET out == ApplyChainFn(h, fn, self)
  IN  IF out.kind = "throw"
      THEN out
      ELSE [out EXCEPT !.heap = Append(out.heap, [out.heap[out.ref] EXCEPT
                                                  !.params = h[self].params]),
                       !.ref = Len(out.heap) + 1]

DataChain(h, self, fn) == ApplyChainFn(h, fn, self)

ApMisuseMessage ==
  "Resource.ap called on Data variant that does not contain a function"

\* Mutant of ApNotAFunction: no check, the call of a non-function throws.
ApNotAFunctionThrows(h, resourceWithValue) ==
  Throw(h, TypeErr("fn is not a function"))

\* The defensive branch: this.value is not a function.
ApNotAFunction(h, resourceWithValue) ==
  FailureOf(h, <<ApMisuseMessage>>, h[resourceWithValue].params)

\* Mutant of ApPropagate: a Failure is re-wrapped without its params.
ApPropagateDropsParams(h, resourceWithValue) ==
  LET v == h[resourceWithValue]
  IN  CASE v.type = "Query" -> QueryOf(h, v.params)
        [] v.type = "Empty" -> EmptyOf(h, v.params)
        [] v.type = "Failure" -> FailureOf(h, v.messages, NoParams)

\* Mutant of ApPropagate: a Query is re-wrapped as an Empty.
ApPropagateQueryAsEmpty(h, resourceWithValue) ==
  LET v == h[resourceWithValue]
  IN  CASE v.type = "Query" -> EmptyOf(h, v.params)
        [] v.type = "Empty" -> EmptyOf(h, v.params)
        [] v.type = "Failure" -> FailureOf(h, v.messages, v.params)

\* The value resource is not a Data: its state is re-wrapped.
ApPropagate(h, resourceWithValue) ==
  LET v == h[resourceWithValue]
  IN  CASE v.type = "Query" -> QueryOf(h, v.params)
        [] v.type = "Empty" -> EmptyOf(h, v.params)
        [] v.type = "Failure" -> FailureOf(h, v.messages, v.params)

\* Mutant of DataAp: the result carries the function side's params.
DataApOwnParams(h, self, resourceWithValue) ==
  IF typeof(h[self].value) /= "function"
  THEN ApNotAFunction(h, resourceWithValue)
  ELSE IF h[resourceWithValue].type /= "Data"
       THEN ApPropagate(h, resourceWithValue)
       ELSE LET fn == h[self].value.name
                result == Call(fn, h[resourceWithValue].value)
            IN  Invoked(fn, IF result.kind = "throw"
                            THEN Throw(h, result.err)
                            ELSE DataOf(h, result.val, h[self].params))

\* Mutant of DataAp: a Data that holds a function is passed through, no
\* function is applied to a function.
DataApKeepsFunctions(h, self, resourceWithValue) ==
  IF typeof(h[self].value) /= "function"
  THEN ApNotAFunction(h, resourceWithValue)
  ELSE IF h[resourceWithValue].type /= "Data"
       THEN ApPropagate(h, resourceWithValue)
       ELSE IF typeof(h[resourceWithValue].value) = "function"
            THEN Ret(h, resourceWithValue)
            ELSE DataMap(h, resourceWithValue, h[self].value.name)

DataAp(h, self, resourceWithValue) ==
  IF typeof(h[self].value) /= "function"
  THEN ApNotAFunction(h, resourceWithValue)
  ELSE IF h[resourceWithValue].type /= "Data"
       THEN ApPropagate(h, resourceWithValue)
       \* resourceWithValue.map(fn), resourceWithValue being a Data here
       ELSE DataMap(h, resourceWithValue, h[self].value.name)

\* Mutant of DataUpdate: the new params are merged into the old ones, which
\* leaves the old ones in place when the new ones are absent.
DataUpdateMerging(h, self, params) ==
  QueryOf(h, IF params = NoParams THEN h[self].params ELSE params)

DataUpdate(h, self, params) == QueryOf(h, params)

\* Mutant of DataGetDataOr: the fallback wins.
DataGetDataOrFallback(h, self, value) == RetValue(h, value)

DataGetDataOr(h, self, value) == RetValue(h, h[self].value)

DataMatchWith(h, self, pattern) == CallBranch(h, pattern, "Data", self)

DataMatchWithPartial(h, self, pattern) ==
  CallBranchIfSupplied(h, pattern, "Data", self)

(***************************************************************************)
(* class Empty                                                             *)
(***************************************************************************)
EmptyMap(h, self, fn) == Ret(h, self)

EmptyMapSafe(h, self, fn) == Ret(h, self)

EmptyChain(h, self, fn) == Ret(h, self)

\* Mutant of EmptyAp: the receiver's own params are kept.
EmptyApOwnParams(h, self, resourceWithValue) == EmptyOf(h, h[self].params)

EmptyAp(h, self, resourceWithValue) == EmptyOf(h, h[resourceWithValue].params)

EmptyInstOf(h, self, value) == DataOf(h, value, h[self].params)

EmptyUpdate(h, self, params) == QueryOf(h, params)

EmptyGetDataOr(h, self, value) == RetValue(h, value)

EmptyMatchWith(h, self, pattern) == CallBranch(h, pattern, "Empty", self)

EmptyMatchWithPartial(h, self, pattern) ==
  CallBranchIfSupplied(h, pattern, "Empty", self)

(***************************************************************************)
(* class Failure                                                           *)
(***************************************************************************)
FailureMap(h, self, fn) == Ret(h, self)

FailureMapSafe(h, self, fn) == Ret(h, self)

FailureChain(h, self, fn) == Ret(h, self)

\* Mutant of FailureAp: the messages of a Failure argument are merged in.
FailureApMergesMessages(h, self, resourceWithValue) ==
  FailureOf(h,
            IF h[resourceWithValue].type = "Failure"
            THEN h[self].messages \o h[resourceWithValue].messages
            ELSE h[self].messages,
            h[resourceWithValue].params)

\* Mutant of FailureAp: the receiver's own params are kept.
FailureApOwnParams(h, self, resourceWithValue) ==
  FailureOf(h, h[self].messages, h[self].params)

FailureAp(h, self, resourceWithValue) ==
  FailureOf(h, h[self].messages, h[resourceWithValue].params)

\* Mutant of FailureInstOf: a Failure stays a Failure.
FailureInstOfStaysFailure(h, self, value) == Ret(h, self)

FailureInstOf(h, self, value) == DataOf(h, value, h[self].params)

FailureUpdate(h, self, params) == QueryOf(h, params)

FailureGetDataOr(h, self, value) == RetValue(h, value)

FailureMatchWith(h, self, pattern) == CallBranch(h, pattern, "Failure", self)

\* Mutant of FailureMatchWithPartial: the branch is called without looking
\* whether the pattern has it.
FailureMatchWithPartialUnchecked(h, self, pattern) ==
  [CallBranch(h, pattern, "Failure", self) EXCEPT !.val = Undefined]

FailureMatchWithPartial(h, self, pattern) ==
  CallBranchIfSupplied(h, pattern, "Failure", self)

\* Mutant of matchWith: the cases of Empty and Failure are exchanged.
matchWithExchanged(h, resource, pattern) ==
  CASE h[resource].type = "Data" -> CallBranch(h, pattern, "Data", resource)
    [] h[resource].type = "Query" -> CallBranch(h, pattern, "Query", resource)
    [] h[resource].type = "Empty" -> CallBranch(h, pattern, "Failure", resource)
    [] h[resource].type = "Failure" -> CallBranch(h, pattern, "Empty", resource)

\* export const matchWith = (resource, pattern) => switch (resource.type)
matchWith(h, resource, pattern) ==
  CASE h[resource].type = "Data" -> CallBranch(h, pattern, "Data", resource)
    [] h[resource].type = "Query" -> CallBranch(h, pattern, "Query", resource)
    [] h[resource].type = "Empty" -> CallBranch(h, pattern, "Empty", resource)
    [] h[resource].type = "Failure" -> CallBranch(h, pattern, "Failure", resource)

(***************************************************************************)
(* Type predicates for Resource variants.                                  *)
(***************************************************************************)
isData(resource) == resource.type = "Data"
isQuery(resource) == resource.type = "Query"
isFailure(resource) == resource.type = "Failure"
isEmpty(resource) == resource.type = "Empty"

\* Mutant of hasInstance: Failure and Empty are bound to each other's
\* predicate.
hasInstanceExchanged(name, resource) ==
  CASE name = "Data" -> isData(resource)
    [] name = "Failure" -> isEmpty(resource)
    [] name = "Query" -> isQuery(resource)
    [] name = "Empty" -> isFailure(resource)

\* hasInstance.<name>(resource)
hasInstance(name, resource) ==
  CASE name = "Data" -> isData(resource)
    [] name = "Failure" -> isFailure(resource)
    [] name = "Query" -> isQuery(resource)
    [] name = "Empty" -> isEmpty(resource)

(***************************************************************************)
(* class Failing, class Passing (Validation)                               *)
(***************************************************************************)
FailingMap(h, self, fn) == Ret(h, self)

FailingChain(h, self, fn) == Ret(h, self)

FailingMatchWith(h, self, pattern) == CallBranch(h, pattern, "Failing", self)

FailingMatchWithPartial(h, self, pattern) ==
  CallBranchIfSupplied(h, pattern, "Failing", self)

PassingMap(h, self, fn) ==
  LET result == Call(fn, h[self].value)
  IN  Invoked(fn, IF result.kind = "throw"
                  THEN Throw(h, result.err)
                  ELSE PassingOf(h, result.val))

\* The caller's chain functions, fn: Passing -> Validation.
VChainFns == {"self", "toPassing", "toFailing", "throwError"}

VChainFnResult(h, fn, p) ==
  CASE fn = "self" -> Ret(h, p)
    [] fn = "toPassing" -> PassingOf(h, h[p].value)
    [] fn = "toFailing" -> FailingOf(h, <<"inner fail">>)
    [] fn = "throwError" -> Throw(h, Err("boom"))

ApplyVChainFn(h, fn, p) == Invoked(fn, VChainFnResult(h, fn, p))

PassingChain(h, self, fn) == ApplyVChainFn(h, fn, self)

PassingMatchWith(h, self, pattern) == CallBranch(h, pattern, "Passing", self)

PassingMatchWithPartial(h, self, pattern) ==
  CallBranchIfSupplied(h, pattern, "Passing", self)

\* export const matchWith = (validation, pattern) => switch (validation.type)
validationMatchWith(h, validation, pattern) ==
  CASE h[validation].type = "Passing" ->
         CallBranch(h, pattern, "Passing", validation)
    [] h[validation].type = "Failing" ->
         CallBranch(h, pattern, "Failing", validation)

\* Type predicates for Validation variants.
isPassing(validation) == validation.type = "Passing"
isFailing(validation) == validation.type = "Failing"

\* hasInstance.<name>(validation)
validationHasInstance(name, validation) ==
  CASE name = "Passing" -> isPassing(validation)
    [] name = "Failing" -> isFailing(validation)

\* Mutant of PassingConcat: the earlier Passing wins over a later one.
PassingConcatFirstWins(h, self, validation) ==
  IF isPassing(h[validation]) THEN Ret(h, self) ELSE Ret(h, validation)

PassingConcat(h, self, validation) == Ret(h, validation)

\* Mutant of FailingConcat: the argument's messages come first (the order of
\* the superseded revision).
FailingConcatLegacyOrder(h, self, validation) ==
  IF isFailing(h[validation])
  THEN FailingOf(h, h[validation].messages \o h[self].messages)
  ELSE Ret(h, self)

\* Mutant of FailingConcat: an equal copy instead of this.
FailingConcatCopies(h, self, validation) ==
  IF isFailing(h[validation])
  THEN FailingOf(h, h[self].messages \o h[validation].messages)
  ELSE FailingOf(h, h[self].messages)

\* Mutant of FailingConcat: a Passing argument wins.
FailingConcatYieldsToPassing(h, self, validation) ==
  IF isFailing(h[validation])
  THEN FailingOf(h, h[self].messages \o h[validation].messages)
  ELSE Ret(h, validation)

\* Mutant of FailingConcat: the argument's messages are pushed onto the
\* receiver's own list.
FailingConcatInPlace(h, self, validation) ==
  IF isFailing(h[validation])
  THEN Ret([h EXCEPT ![self].messages = @ \o h[validation].messages], self)
  ELSE Ret(h, self)

FailingConcat(h, self, validation) ==
  IF isFailing(h[validation])
  THEN FailingOf(h, h[self].messages \o h[validation].messages)
  ELSE Ret(h, self)

(***************************************************************************)
(* Method dispatch: the receiver's class decides which method runs.        *)
(***************************************************************************)
Map(h, self, fn) ==
  CASE h[self].type = "Data" -> DataMap(h, self, fn)
    [] h[self].type = "Query" -> QueryMap(h, self, fn)
    [] h[self].type = "Empty" -> EmptyMap(h, self, fn)
    [] h[self].type = "Failure" -> FailureMap(h, self, fn)
    [] h[self].type = "Passing" -> PassingMap(h, self, fn)
    [] h[self].type = "Failing" -> FailingMap(h, self, fn)

MapSafe(h, self, fn) ==
  CASE h[self].type = "Data" -> DataMapSafe(h, self, fn)
    [] h[self].type = "Query" -> QueryMapSafe(h, self, fn)
    [] h[self].type = "Empty" -> EmptyMapSafe(h, self, fn)
    [] h[self].type = "Failure" -> FailureMapSafe(h, self, fn)

Chain(h, self, fn) ==
  CASE h[self].type = "Data" -> DataChain(h, self, fn)
    [] h[self].type = "Query" -> QueryChain(h, self, fn)
    [] h[self].type = "Empty" -> EmptyChain(h, self, fn)
    [] h[self].type = "Failure" -> FailureChain(h, self, fn)
    [] h[self].type = "Passing" -> PassingChain(h, self, fn)
    [] h[self].type = "Failing" -> FailingChain(h, self, fn)

Ap(h, self, resourceWithValue) ==
  CASE h[self].type = "Data" -> DataAp(h, self, resourceWithValue)
    [] h[self].type = "Query" -> QueryAp(h, self, resourceWithValue)
    [] h[self].type = "Empty" -> EmptyAp(h, self, resourceWithValue)
    [] h[self].type = "Failure" -> FailureAp(h, self, resourceWithValue)

InstOf(h, self, value) ==
  CASE h[self].type = "Data" -> DataInstOf(h, self, value)
    [] h[self].type = "Query" -> QueryInstOf(h, self, value)
    [] h[self].type = "Empty" -> EmptyInstOf(h, self, value)
    [] h[self].type = "Failure" -> FailureInstOf(h, self, value)

Update(h, self, params) ==
  CASE h[self].type = "Data" -> DataUpdate(h, self, params)
    [] h[self].type = "Query" -> QueryUpdate(h, self, params)
    [] h[self].type = "Empty" -> EmptyUpdate(h, self, params)
    [] h[self].type = "Failure" -> FailureUpdate(h, self, params)

GetDataOr(h, self, value) ==
  CASE h[self].type = "Data" -> DataGetDataOr(h, self, value)
    [] h[self].type = "Query" -> QueryGetDataOr(h, self, value)
    [] h[self].type = "Empty" -> EmptyGetDataOr(h, self, value)
    [] h[self].type = "Failure" -> FailureGetDataOr(h, self, value)

MatchWith(h, self, pattern) ==
  CASE h[self].type = "Data" -> DataMatchWith(h, self, pattern)
    [] h[self].type = "Query" -> QueryMatchWith(h, self, pattern)
    [] h[self].type = "Empty" -> EmptyMatchWith(h, self, pattern)
    [] h[self].type = "Failure" -> FailureMatchWith(h, self, pattern)
    [] h[self].type = "Passing" -> PassingMatchWith(h, self, pattern)
    [] h[self].type = "Failing" -> FailingMatchWith(h, self, pattern)

MatchWithPartial(h, self, pattern) ==
  CASE h[self].type = "Data" -> DataMatchWithPartial(h, self, pattern)
    [] h[self].type = "Query" -> QueryMatchWithPartial(h, self, pattern)
    [] h[self].type = "Empty" -> EmptyMatchWithPartial(h, self, pattern)
    [] h[self].type = "Failure" -> FailureMatchWithPartial(h, self, pattern)
    [] h[self].type = "Passing" -> PassingMatchWithPartial(h, self, pattern)
    [] h[self].type = "Failing" -> FailingMatchWithPartial(h, self, pattern)

Concat(h, self, validation) ==
  CASE h[self].type = "Passing" -> PassingConcat(h, self, validation)
    [] h[self].type = "Failing" -> FailingConcat(h, self, validation)

(***************************************************************************)
(* The state machine.                                                      *)
(***************************************************************************)
IsResource(o) == o.type \in ResourceTypes
IsValidation(o) == o.type \in ValidationTypes

Refs == 1..Len(heap)
ResourceRefs == {r \in Refs : IsResource(heap[r])}
ValidationRefs == {r \in Refs : IsValidation(heap[r])}

\* What the caller constructs instances with.
ValueInputs == {Num(42)} \cup {Fn(f) : f \in HeldFns}
MessageInputs == {<<"error">>, <<"e1", "e2">>}

\* The receiver, the argument and the result of the call just made.
Self == heap[last.self]
Arg == heap[last.arg]
Result == heap[last.ref]

NoCall ==
  [op |-> "none", self |-> 0, fn |-> "", arg |-> 0, x |-> Undefined,
   pre |-> 0, kind |-> "return", ref |-> 0, val |-> Undefined,
   err |-> NoErr, called |-> <<>>]

\* The call just made: its receiver and arguments (fn: a function, arg: an
\* instance, x: a value or params), the heap size before it, and what it
\* returned or threw.
Called(op, self, fn, arg, out) ==
  [op |-> op, self |-> self, fn |-> fn, arg |-> arg, x |-> Undefined,
   pre |-> Len(heap), kind |-> out.kind, ref |-> out.ref, val |-> out.val,
   err |-> out.err, called |-> out.called]

\* A call is made while the heap has room for the instance it may allocate.
Do(op, self, fn, arg, out) ==
  /\ Len(heap) < MaxHeap
  /\ heap' = out.heap
  /\ last' = Called(op, self, fn, arg, out)
  /\ UNCHANGED promises

\* A call whose argument is a value or params.
DoWith(op, self, x, out) ==
  /\ Len(heap) < MaxHeap
  /\ heap' = out.heap
  /\ last' = [Called(op, self, "", 0, out) EXCEPT !.x = x]
  /\ UNCHANGED promises

Init ==
  /\ heap = <<>>
  /\ last = NoCall
  /\ promises = <<>>

\* A run works on one of the two types: no operation takes both.
NewData ==
  /\ ValidationRefs = {}
  /\ \E v \in ValueInputs, p \in Params :
       Do("Data.of", 0, "", 0, DataOf(heap, v, p))

NewQuery ==
  /\ ValidationRefs = {}
  /\ \E p \in Params : Do("Query.of", 0, "", 0, QueryOf(heap, p))

NewEmpty ==
  /\ ValidationRefs = {}
  /\ \E p \in Params : Do("Empty.of", 0, "", 0, EmptyOf(heap, p))

NewFailure ==
  /\ ValidationRefs = {}
  /\ \E m \in MessageInputs, p \in Params :
       Do("Failure.of", 0, "", 0, FailureOf(heap, m, p))

NewPassing ==
  /\ ResourceRefs = {}
  /\ \E v \in ValueInputs : Do("Passing.of", 0, "", 0, PassingOf(heap, v))

NewFailing ==
  /\ ResourceRefs = {}
  /\ \E m \in MessageInputs : Do("Failing.of", 0, "", 0, FailingOf(heap, m))

HasValue(o) == o.type \in {"Data", "Passing"}

CallMap ==
  \E self \in Refs, fn \in Fns :
    /\ HasValue(heap[self]) => Applicable(fn, heap[self].value)
    /\ Do("map", self, fn, 0, Map(heap, self, fn))

CallMapSafe ==
  \E self \in ResourceRefs, fn \in Fns :
    /\ HasValue(heap[self]) => Applicable(fn, heap[self].value)
    /\ Do("mapSafe", self, fn, 0, MapSafe(heap, self, fn))

CallChain ==
  \/ \E self \in ResourceRefs, fn \in ChainFns :
       Do("chain", self, fn, 0, Chain(heap, self, fn))
  \/ \E self \in ValidationRefs, fn \in VChainFns :
       Do("chain", self, fn, 0, Chain(heap, self, fn))

\* this holds a function typed for the value it is applied to.
ApTyped(self, arg) ==
  (/\ heap[self].type = "Data"
   /\ typeof(heap[self].value) = "function"
   /\ heap[arg].type = "Data")
  => Applicable(heap[self].value.name, heap[arg].value)

CallAp ==
  \E self \in ResourceRefs, arg \in ResourceRefs :
    /\ ApTyped(self, arg)
    /\ Do("ap", self, "", arg, Ap(heap, self, arg))

CallOf ==
  \E self \in ResourceRefs, value \in PlainInputs :
    DoWith("of", self, value, InstOf(heap, self, value))

CallUpdate ==
  \E self \in ResourceRefs, params \in Params :
    DoWith("update", self, params, Update(heap, self, params))

CallGetDataOr ==
  \E self \in ResourceRefs, value \in PlainInputs :
    DoWith("getDataOr", self, value, GetDataOr(heap, self, value))

\* The pattern type of an instance: all branches of its union.
PatternFor(o) == IF IsResource(o) THEN ResourcePattern ELSE ValidationPattern

\* instance.matchWith(pattern) and matchWith(instance, pattern)
CallMatchWith ==
  \/ \E self \in Refs :
       DoWith("matchWith", self, PatternFor(heap[self]),
              MatchWith(heap, self, PatternFor(heap[self])))
  \/ \E resource \in ResourceRefs :
       DoWith("module.matchWith", resource, ResourcePattern,
              matchWith(heap, resource, ResourcePattern))
  \/ \E validation \in ValidationRefs :
       DoWith("module.matchWith", validation, ValidationPattern,
              validationMatchWith(heap, validation, ValidationPattern))

\* A partial pattern supplies any of the branches.
CallMatchWithPartial ==
  \E self \in Refs :
    \E pattern \in SUBSET PatternFor(heap[self]) :
      DoWith("matchWithPartial", self, pattern,
             MatchWithPartial(heap, self, pattern))

\* is<name>(instance), by the name of the predicate's variant.
Is(name, o) ==
  CASE name = "Data" -> isData(o)
    [] name = "Query" -> isQuery(o)
    [] name = "Empty" -> isEmpty(o)
    [] name = "Failure" -> isFailure(o)
    [] name = "Passing" -> isPassing(o)
    [] name = "Failing" -> isFailing(o)

HasInstance(name, o) ==
  IF IsResource(o) THEN hasInstance(name, o) ELSE validationHasInstance(name, o)

\* isData(r), isQuery(r), ... and hasInstance.Data(r), ...: each predicate of
\* the instance's union.
CallPredicate ==
  \E self \in Refs :
    \E name \in PatternFor(heap[self]) :
      \/ DoWith("is", self, name, RetValue(heap, Bool(Is(name, heap[self]))))
      \/ DoWith("hasInstance", self, name,
                RetValue(heap, Bool(HasInstance(name, heap[self]))))

\* concat has its own bound on the heap, so that calls of it can be chained.
CallConcat ==
  \E self \in ValidationRefs, validation \in ValidationRefs :
    /\ Len(heap) < MaxConcatHeap
    /\ LET out == Concat(heap, self, validation)
       IN  /\ heap' = out.heap
           /\ last' = Called("concat", self, "", validation, out)
    /\ UNCHANGED promises

\* The methods that transform an instance or read its value.
Next ==
  \/ NewData \/ NewQuery \/ NewEmpty \/ NewFailure
  \/ NewPassing \/ NewFailing
  \/ CallMap \/ CallMapSafe \/ CallChain \/ CallAp
  \/ CallOf \/ CallUpdate \/ CallGetDataOr

Spec == Init /\ [][Next]_vars

\* Pattern matching and the predicates, on the instances the caller constructs.
SpecMatch ==
  Init /\ [][\/ NewData \/ NewQuery \/ NewEmpty \/ NewFailure
            \/ NewPassing \/ NewFailing
            \/ CallMatchWith \/ CallMatchWithPartial
            \/ CallPredicate]_vars

\* Every operation of the two types.
SpecAll ==
  Init /\ [][\/ Next
            \/ CallMatchWith \/ CallMatchWithPartial
            \/ CallConcat \/ CallPredicate]_vars

(***************************************************************************)
(* Validation.concat, exercised on three Validations the caller built and  *)
(* on what concat makes of them, so that two calls can be chained.         *)
(***************************************************************************)
ValidationInputs ==
  {PassingObj(Num(42)), PassingObj(Num(100)),
   FailingObj(<<"error">>), FailingObj(<<"e1", "e2">>)}

ConcatInit ==
  /\ \E a \in ValidationInputs, b \in ValidationInputs, c \in ValidationInputs :
       heap = <<a, b, c>>
  /\ last = NoCall
  /\ promises = <<>>

SpecConcat == ConcatInit /\ [][CallConcat]_vars

(***************************************************************************)
(* pure(compose).ap(u).ap(v).ap(w): the caller builds pure(compose), u, v  *)
(* and w, then applies each result to the next resource.                   *)
(***************************************************************************)
\* u, v: a Data holding a unary function, or a Query, Empty or Failure.
FunctionResources ==
  {DataObj(Fn(f), p) : f \in BaseFns, p \in Params}
    \cup {QueryObj(p) : p \in Params} \cup {EmptyObj(p) : p \in Params}
    \cup {FailureObj(m, p) : m \in MessageInputs, p \in Params}
\* w: a Data holding a number, or a Query, Empty or Failure.
ValueResources ==
  {DataObj(Num(42), p) : p \in Params}
    \cup {QueryObj(p) : p \in Params} \cup {EmptyObj(p) : p \in Params}
    \cup {FailureObj(m, p) : m \in MessageInputs, p \in Params}

ApCompositionInit ==
  /\ \E p \in Params, u \in FunctionResources, v \in FunctionResources,
        w \in ValueResources :
       heap = <<DataObj(Fn("compose"), p), u, v, w>>
  /\ last = NoCall
  /\ promises = <<>>

\* The next call of the chain: the result so far, applied to the next of
\* u (2), v (3), w (4).
CallApNext ==
  LET self == IF last.op = "none" THEN 1 ELSE last.ref
      arg == IF last.op = "none" THEN 2 ELSE last.arg + 1
  IN  /\ arg \in 2..4
      /\ last.kind = "return"
      /\ LET out == Ap(heap, self, arg)
         IN  /\ heap' = out.heap
             /\ last' = Called("ap", self, "", arg, out)
      /\ UNCHANGED promises

SpecApComposition == ApCompositionInit /\ [][CallApNext]_vars

(***************************************************************************)
(* overPromise(params, promise) = promise.then(onFulfilled, onRejected).   *)
(* `then` registers one reaction on the upstream promise and returns a new *)
(* promise; when the upstream settles (or if it already has), a job is     *)
(* queued; the job runs one of the two handlers and settles the returned   *)
(* promise: fulfilled with what the handler returns, rejected with what it *)
(* throws.                                                                 *)
(***************************************************************************)
\* The states of a promise.
PendingPromise == [state |-> "pending", value |-> Undefined, reason |-> NoErr]
FulfilledPromise(value) ==
  [state |-> "fulfilled", value |-> value, reason |-> NoErr]
RejectedPromise(reason) ==
  [state |-> "rejected", value |-> Undefined, reason |-> reason]

\* What the upstream fulfils with, and what it rejects with.
PromiseValues == {Num(42), Undefined}
Reasons == {Err("This should be an error message"), StrErr("oops"), NullErr,
            UndefErr, NullProtoErr}
\* The promise handed to overPromise: pending or already settled.
UpstreamInputs ==
  {PendingPromise} \cup {FulfilledPromise(v) : v \in PromiseValues}
                   \cup {RejectedPromise(e) : e \in Reasons}

\* (value: R) => Data.of(value, params)
OnFulfilled(h, params, value) == DataOf(h, value, params)

\* Mutant of OnRejected: the rejection is passed on.
OnRejectedRethrows(h, params, error) == Throw(h, error)

\* (error) => Failure.of([message], params)
OnRejected(h, params, error) ==
  LET message == ErrorMessage(error)
  IN  IF message.kind = "throw"
      THEN Throw(h, message.err)
      ELSE FailureOf(h, <<message.val>>, params)

\* The reaction job of a settled upstream: the handler for its state.
Reaction(h, p) ==
  IF p.upstream.state = "fulfilled"
  THEN OnFulfilled(h, p.params, p.upstream.value)
  ELSE OnRejected(h, p.params, p.upstream.reason)

\* The job of a reaction: waiting for the upstream, queued, or done.
JobFor(promise) == IF promise.state = "pending" THEN "waiting" ELSE "queued"

\* The promise `then` returns, settled by the outcome of the handler.
SettledBy(out) ==
  IF out.kind = "return"
  THEN [state |-> "fulfilled", ref |-> out.ref, reason |-> NoErr]
  ELSE [state |-> "rejected", ref |-> 0, reason |-> out.err]

\* Mutant of AfterReaction: the reaction stays queued and runs again.
AfterReactionRequeued(p, out) == [p EXCEPT !.returned = SettledBy(out)]

\* The call of overPromise after its reaction job ran.
AfterReaction(p, out) ==
  [p EXCEPT !.returned = SettledBy(out), !.job = "done"]

CallOverPromise ==
  \E params \in Params, promise \in UpstreamInputs :
    /\ Len(promises) < MaxPromises
    /\ promises' = Append(promises,
         [params |-> params, upstream |-> promise, job |-> JobFor(promise),
          returned |-> [state |-> "pending", ref |-> 0, reason |-> NoErr]])
    /\ UNCHANGED <<heap, last>>

\* The upstream promise is settled by its owner, once.
Resolve ==
  \E i \in DOMAIN promises, value \in PromiseValues :
    /\ promises[i].upstream.state = "pending"
    /\ promises' = [promises EXCEPT ![i].upstream = FulfilledPromise(value),
                                    ![i].job = "queued"]
    /\ UNCHANGED <<heap, last>>

Reject ==
  \E i \in DOMAIN promises, reason \in Reasons :
    /\ promises[i].upstream.state = "pending"
    /\ promises' = [promises EXCEPT ![i].upstream = RejectedPromise(reason),
                                    ![i].job = "queued"]
    /\ UNCHANGED <<heap, last>>

\* The job queue runs the reaction of call i.
RunReaction(i) ==
  /\ i \in DOMAIN promises
  /\ promises[i].job = "queued"
  /\ Len(heap) < MaxHeap
  /\ LET out == Reaction(heap, promises[i])
     IN  /\ heap' = out.heap
         /\ promises' = [promises EXCEPT ![i] = AfterReaction(@, out)]
  /\ UNCHANGED last

RunReactions == \E i \in 1..MaxPromises : RunReaction(i)

PromiseNext == CallOverPromise \/ Resolve \/ Reject \/ RunReactions

SpecPromise == Init /\ [][PromiseNext]_vars

\* The job queue is drained: a queued reaction runs.
LiveSpecPromise ==
  SpecPromise /\ \A i \in 1..MaxPromises : WF_vars(RunReaction(i))

(***************************************************************************)
(* Properties.                                                             *)
(***************************************************************************)
\* The heap before the call just made (the heap only grows).
HeapBefore == SubSeq(heap, 1, last.pre)
\* The call just made allocated nothing.
NoAllocation == Len(heap) = last.pre
\* The call just made returned an instance it allocated.
ReturnedFresh == last.kind = "return" /\ last.ref > last.pre

MapSafeOnData == last.op = "mapSafe" /\ Self.type = "Data"
MapOnData == last.op = "map" /\ Self.type = "Data"
\* fn(this.value) for the call just made
FnOfValue == Call(last.fn, Self.value)

\* C1: Data.mapSafe(fn) never throws: it returns Data(fn(value)) with the
\* receiver's params when fn returns, and a Failure with exactly one message
\* (e.message for an Error e, String(e) otherwise) and the receiver's params
\* when fn throws e.
C1_MapSafeNeverThrows ==
  MapSafeOnData =>
    /\ last.kind = "return"
    /\ FnOfValue.kind = "return" =>
         Result = DataObj(FnOfValue.val, Self.params)
    /\ FnOfValue.kind = "throw" =>
         /\ Result.type = "Failure"
         /\ Len(Result.messages) = 1
         /\ Result.messages[1] = ErrorMessage(FnOfValue.err).val
         /\ Result.params = Self.params

\* C2: when fn(value) throws, Data.map(fn) throws the same value: nothing is
\* returned and no Failure (or other instance) is built.
C2_MapPropagatesError ==
  (MapOnData /\ FnOfValue.kind = "throw") =>
    /\ last.kind = "throw"
    /\ last.err = FnOfValue.err
    /\ NoAllocation

C2_Witness ==
  /\ MapOnData
  /\ last.fn = "throwError"
  /\ last.kind = "throw"
  /\ last.err = Err("boom")

\* C3: when fn(value) returns, Data.map(fn) returns a new Data holding
\* fn(value) with exactly the receiver's params (absent stays absent).
C3_MapTransformsValue ==
  (MapOnData /\ FnOfValue.kind = "return") =>
    /\ ReturnedFresh
    /\ Result = DataObj(FnOfValue.val, Self.params)

C3_Witness ==
  /\ MapOnData
  /\ last.fn = "addOne"
  /\ Self = DataObj(Num(42), "p1")
  /\ Result = DataObj(Num(43), "p1")

\* C4: on Query, Empty, Failure and Failing, map, mapSafe and chain return
\* the receiver itself (the same reference, nothing allocated), whatever
\* function is passed, and do not invoke it.
C4_ValuelessReturnThis ==
  (/\ last.op \in {"map", "mapSafe", "chain"}
   /\ Self.type \in {"Query", "Empty", "Failure", "Failing"}) =>
    /\ last.kind = "return"
    /\ last.ref = last.self
    /\ NoAllocation
    /\ last.called = <<>>

C4_Witness ==
  /\ last.op = "chain"
  /\ last.fn = "innerData"
  /\ Self.type = "Failure"
  /\ last.ref = last.self

\* C5: on a Data d, d.chain(f) is exactly f(d): the instance f returned (its
\* variant, value, messages and params), or the value f threw; f is invoked
\* once and nothing of d is put into the result.
C5_ChainIsFnOfThis ==
  (last.op = "chain" /\ Self.type = "Data") =>
    LET fd == ChainFnResult(HeapBefore, last.fn, last.self)
    IN  /\ last.kind = fd.kind
        /\ last.ref = fd.ref
        /\ last.err = fd.err
        /\ heap = fd.heap
        /\ last.called = <<last.fn>>
        /\ last.fn = "innerData" => Result = DataObj(Num(200), InnerParams)
        /\ last.fn = "innerQuery" => Result = QueryObj(InnerParams)
        /\ last.fn = "innerFailure" =>
             Result = FailureObj(<<"inner fail">>, InnerParams)
        /\ last.fn = "ofValue" => Result = DataObj(Self.value, Self.params)
        /\ last.fn = "self" => last.ref = last.self

C5_Witness ==
  /\ last.op = "chain"
  /\ last.fn = "innerFailure"
  /\ Self = DataObj(Num(42), "p1")
  /\ Result = FailureObj(<<"inner fail">>, InnerParams)

ApOnData == last.op = "ap" /\ Self.type = "Data"
ApOnFunction == ApOnData /\ typeof(Self.value) = "function"
ApOnNonData == last.op = "ap" /\ Self.type \in {"Query", "Empty", "Failure"}
\* f(b.value) for the call a.ap(b) just made
FnOfArgValue == Call(Self.value.name, Arg.value)

\* C6: for a Data a holding a function f and a Data b, a.ap(b) is
\* Data(f(b.value)) carrying b's params, never a's.
C6_ApAppliesWithValueParams ==
  (ApOnFunction /\ Arg.type = "Data" /\ FnOfArgValue.kind = "return") =>
    /\ ReturnedFresh
    /\ Result = DataObj(FnOfArgValue.val, Arg.params)
    /\ last.called = <<Self.value.name>>

C6_Witness ==
  /\ ApOnFunction
  /\ Self = DataObj(Fn("addOne"), "p1")
  /\ Arg = DataObj(Num(42), NoParams)
  /\ Result = DataObj(Num(43), NoParams)

\* C7: for a Data a holding a function and a Query, Empty or Failure v,
\* a.ap(v) has v's variant, v's params and (Failure) v's messages in order;
\* the function held by a is not invoked.
C7_ApPropagatesValueState ==
  (ApOnFunction /\ Arg.type \in {"Query", "Empty", "Failure"}) =>
    /\ last.kind = "return"
    /\ Result.type = Arg.type
    /\ Result.params = Arg.params
    /\ Arg.type = "Failure" => Result.messages = Arg.messages
    /\ last.called = <<>>

C7_Witness ==
  /\ ApOnFunction
  /\ Self.params = NoParams
  /\ Arg = FailureObj(<<"e1", "e2">>, "p1")
  /\ Result = FailureObj(<<"e1", "e2">>, "p1")
  /\ last.ref /= last.arg

\* C8: for a Data whose value is not callable and an argument v of any of
\* the four variants, ap(v) does not throw and returns a Failure with the one
\* fixed message and v's params.
C8_ApMisuseIsFailure ==
  (ApOnData /\ typeof(Self.value) /= "function") =>
    /\ last.kind = "return"
    /\ Result = FailureObj(
         <<"Resource.ap called on Data variant that does not contain a function">>,
         Arg.params)

C8_Witness ==
  /\ ApOnData
  /\ Self = DataObj(Num(42), "p1")
  /\ Arg.type = "Query"
  /\ Arg.params = NoParams
  /\ Result.type = "Failure"
  /\ Result.params = NoParams

\* C9: for a Query, Empty or Failure n and a resource v of any variant,
\* n.ap(v) has n's variant, v's params (not n's) and, for a Failure, n's
\* messages.
C9_NonDataApTakesValueParams ==
  ApOnNonData =>
    /\ last.kind = "return"
    /\ Result.type = Self.type
    /\ Result.params = Arg.params
    /\ Self.type = "Failure" => Result.messages = Self.messages

C9_Witness ==
  /\ ApOnNonData
  /\ Self = FailureObj(<<"error">>, "p1")
  /\ Arg = FailureObj(<<"e1", "e2">>, NoParams)
  /\ Result = FailureObj(<<"error">>, NoParams)

C11_OfLiftsWithOwnParams ==
  last.op = "of" =>
    /\ ReturnedFresh
    /\ Result = DataObj(last.x, Self.params)

C11_Witness ==
  /\ last.op = "of"
  /\ Self = FailureObj(<<"e1", "e2">>, NoParams)
  /\ Result = DataObj(Num(5), NoParams)

\* C12: for a resource r of any variant and params p, r.update(p) is a new
\* Query whose params are exactly p; nothing of r is in the result.
C12_UpdateIsQueryOfNewParams ==
  last.op = "update" =>
    /\ ReturnedFresh
    /\ Result = QueryObj(last.x)

C12_Witness ==
  /\ last.op = "update"
  /\ Self = DataObj(Num(42), "p1")
  /\ last.x = NoParams
  /\ Result = QueryObj(NoParams)

\* C13: getDataOr(fallback) returns the held value on a Data, whatever the
\* fallback, and the fallback itself on Query, Empty and Failure; it builds
\* no instance.
C13_GetDataOr ==
  last.op = "getDataOr" =>
    /\ last.kind = "return"
    /\ NoAllocation
    /\ Self.type = "Data" => last.val = Self.value
    /\ Self.type \in {"Query", "Empty", "Failure"} => last.val = last.x

C13_Witness ==
  /\ last.op = "getDataOr"
  /\ Self = DataObj(Num(42), "p1")
  /\ last.x = Str("some string")
  /\ last.val = Num(42)

\* Call i of overPromise, its upstream promise and the promise it returned.
Upstream(i) == promises[i].upstream
Returned(i) == promises[i].returned
Delivered(i) == heap[Returned(i).ref]

\* C14: once the reaction of overPromise(params, promise) has run, the
\* returned promise is fulfilled, with Data(value, params) when the upstream
\* fulfilled with value and with Failure([message], params) when it rejected
\* with e, message being e.message for an Error and String(e) otherwise;
\* never with a Query or an Empty.
C14_OverPromiseYieldsDataOrFailure ==
  \A i \in DOMAIN promises :
    promises[i].job = "done" =>
      /\ Returned(i).state = "fulfilled"
      /\ Delivered(i).type \in {"Data", "Failure"}
      /\ Upstream(i).state = "fulfilled" =>
           Delivered(i) = DataObj(Upstream(i).value, promises[i].params)
      /\ Upstream(i).state = "rejected" =>
           Delivered(i) = FailureObj(<<ErrorMessage(Upstream(i).reason).val>>,
                                     promises[i].params)

\* The rejection reasons C15 names: an Error, a string, null, undefined.
NamedReason(e) == e.k \in {"Error", "string", "null", "undefined"}
SettledAsNamed(i) ==
  /\ i \in DOMAIN promises
  /\ \/ Upstream(i).state = "fulfilled"
     \/ Upstream(i).state = "rejected" /\ NamedReason(Upstream(i).reason)
ReturnedFulfilled(i) ==
  i \in DOMAIN promises /\ Returned(i).state = "fulfilled"
ReturnedRejected(i) ==
  i \in DOMAIN promises /\ Returned(i).state = "rejected"

C16_SettlesOnceAfterUpstream ==
  /\ [](\A i \in DOMAIN promises :
         Upstream(i).state = "pending" => Returned(i).state = "pending")
  /\ [][\A i \in DOMAIN promises :
          Returned(i).state /= "pending" =>
            /\ promises'[i].returned = Returned(i)
            /\ Returned(i).state = "fulfilled" =>
                 heap'[Returned(i).ref] = Delivered(i)]_vars

C16_Witness ==
  /\ Len(promises) = 2
  /\ Upstream(1).state = "pending"
  /\ Returned(1).state = "pending"
  /\ Upstream(2) = FulfilledPromise(Num(42))
  /\ Returned(2).state = "fulfilled"
  /\ Delivered(2) = DataObj(Num(42), promises[2].params)
  /\ Len(heap) = 1

ConcatOn(type) == last.op = "concat" /\ Self.type = type

\* C17: for a Passing p and a Validation other of either variant,
\* p.concat(other) returns other itself: the same instance, unchanged, with
\* nothing allocated and nothing of p in it.
C17_PassingConcatReturnsOther ==
  ConcatOn("Passing") =>
    /\ last.kind = "return"
    /\ last.ref = last.arg
    /\ NoAllocation
    /\ Result = Arg

C17_Witness ==
  /\ ConcatOn("Passing")
  /\ Self = PassingObj(Num(42))
  /\ Arg = PassingObj(Num(100))
  /\ last.self /= last.arg
  /\ last.ref = last.arg

\* C18: for Failing a and b, a.concat(b) is a new Failing whose messages are
\* a's in order followed by b's in order, duplicates kept: its length is the
\* sum of both lengths.
C18_FailingConcatAppends ==
  (ConcatOn("Failing") /\ Arg.type = "Failing") =>
    /\ ReturnedFresh
    /\ Result.type = "Failing"
    /\ Len(Result.messages) = Len(Self.messages) + Len(Arg.messages)
    /\ \A k \in 1..Len(Self.messages) : Result.messages[k] = Self.messages[k]
    /\ \A k \in 1..Len(Arg.messages) :
         Result.messages[Len(Self.messages) + k] = Arg.messages[k]

C18_Witness ==
  /\ ConcatOn("Failing")
  /\ Self = FailingObj(<<"e1", "e2">>)
  /\ Arg = FailingObj(<<"error", "e1", "e2">>)
  /\ Result = FailingObj(<<"e1", "e2", "error", "e1", "e2">>)

\* C19: for a Failing f and a Passing p, f.concat(p) returns f itself, the
\* same instance with nothing allocated; with a Failing on either side of
\* concat the result is a Failing.
C19_FailingConcatPassingReturnsThis ==
  /\ (ConcatOn("Failing") /\ Arg.type = "Passing") =>
       /\ last.kind = "return"
       /\ last.ref = last.self
       /\ NoAllocation
  /\ (last.op = "concat" /\ "Failing" \in {Self.type, Arg.type}) =>
       Result.type = "Failing"

C19_Witness ==
  /\ ConcatOn("Failing")
  /\ Self = FailingObj(<<"e1", "e2">>)
  /\ Arg = PassingObj(Num(100))
  /\ last.ref = last.self

\* C20: concat is associative.  When a.concat(b) has just been called and
\* its result is the receiver of the next call, .concat(c), that call's
\* result has the same variant and the same value or messages as
\* a.concat(b.concat(c)).
C20_ConcatAssociative ==
  [][(/\ last.op = "concat"
      /\ last'.op = "concat"
      /\ last'.self = last.ref) =>
       LET bc == Concat(heap', last.arg, last'.arg)
           a_bc == Concat(bc.heap, last.self, bc.ref)
       IN  /\ a_bc.kind = "return"
           /\ last'.kind = "return"
           /\ heap'[last'.ref] = a_bc.heap[a_bc.ref]]_vars

\* a.concat(b).concat(c) for three Failing: the receiver has three messages,
\* which only concat builds.
C20_Witness ==
  /\ ConcatOn("Failing")
  /\ last.self > 3
  /\ Len(Self.messages) = 3
  /\ Arg = FailingObj(<<"error">>)
  /\ Len(Result.messages) = 4

\* C21: for every Resource and Validation instance, the method matchWith and
\* the module-level matchWith call exactly one branch of the pattern, the one
\* named after the instance's variant, once, with the instance itself, and
\* return what that branch returned; nothing is allocated.
C21_MatchWithTotalAndExclusive ==
  last.op \in {"matchWith", "module.matchWith"} =>
    /\ last.kind = "return"
    /\ last.called = <<Self.type>>
    /\ last.val = BranchResult(Self.type, last.self)
    /\ NoAllocation

C21_Witness ==
  /\ last.op = "module.matchWith"
  /\ Self = FailureObj(<<"e1", "e2">>, "p1")
  /\ last.called = <<"Failure">>
  /\ last.val.arg = last.self

\* C22: matchWithPartial calls the branch named after the instance's variant
\* once when the pattern supplies it and calls nothing when it does not; it
\* never calls another branch, does not throw and returns no value.
C22_MatchWithPartial ==
  last.op = "matchWithPartial" =>
    /\ last.kind = "return"
    /\ last.val = Undefined
    /\ last.called = IF Self.type \in last.x THEN <<Self.type>> ELSE <<>>
    /\ NoAllocation

C22_Witness ==
  /\ last.op = "matchWithPartial"
  /\ Self.type = "Failure"
  /\ last.x = {"Data", "Query"}
  /\ last.called = <<>>

\* C23: functor composition.  When x.map(f) has just been called on a
\* Resource x and its result is the receiver of the next call, .map(g), with
\* f and g functions that return, that call's result equals
\* x.map(v => g(f(v))) in variant, value, messages and params.
C23_MapComposition ==
  [][(/\ last.op = "map"
      /\ last'.op = "map"
      /\ last.kind = "return"
      /\ last'.self = last.ref
      /\ IsResource(heap[last.self])
      /\ last.fn \in BaseFns
      /\ last'.fn \in BaseFns) =>
       LET composed == Map(heap', last.self, Composed(last'.fn, last.fn))
       IN  /\ last'.kind = "return"
           /\ composed.kind = "return"
           /\ heap'[last'.ref] = composed.heap[composed.ref]]_vars

\* x.map(addOne).map(double) on Data(42): 43 is only made by the first map.
C23_Witness ==
  /\ MapOnData
  /\ last.self > 1
  /\ last.fn = "double"
  /\ Self = DataObj(Num(43), "p1")
  /\ Result = DataObj(Num(86), "p1")

\* C24: monad right identity.  For a Resource m of any of the four variants,
\* m.chain(d => d.of(d.value)) equals m in variant, value, messages and
\* params.
C24_ChainRightIdentity ==
  (last.op = "chain" /\ last.fn = "ofValue" /\ IsResource(Self)) =>
    /\ last.kind = "return"
    /\ Result = Self

C24_Witness ==
  /\ last.op = "chain"
  /\ last.fn = "ofValue"
  /\ Self = DataObj(Num(42), "p1")
  /\ last.ref /= last.self
  /\ Result = DataObj(Num(42), "p1")

\* C25: applicative identity.  For a Data holding the identity function,
\* with any params, and a Resource v of any of the four variants, its ap(v)
\* equals v in variant, value, messages and params.
C25_ApIdentity ==
  (ApOnFunction /\ Self.value.name = "id") =>
    /\ last.kind = "return"
    /\ Result = Arg

C25_Witness ==
  /\ ApOnFunction
  /\ Self = DataObj(Fn("id"), "p1")
  /\ Arg = QueryObj(NoParams)
  /\ Result = QueryObj(NoParams)
  /\ last.ref /= last.arg

\* C26: applicative interchange.  When u.of(y) has just been called on a Data
\* u holding a function and its result pure(y) is the argument of the next
\* call, u.ap(pure(y)), that call's result equals pure(f => f(y)).ap(u), pure
\* lifting with u's params as u.of does, in variant, value and params.
C26_ApInterchange ==
  [][(/\ last.op = "of"
      /\ last'.op = "ap"
      /\ last'.self = last.self
      /\ last'.arg = last.ref
      /\ heap[last.self].type = "Data"
      /\ typeof(heap[last.self].value) = "function") =>
       LET u == last.self
           pureApplyY == InstOf(heap', u, Fn(ApplyTo(last.x)))
           right == Ap(pureApplyY.heap, pureApplyY.ref, u)
       IN  /\ last'.kind = "return"
           /\ right.kind = "return"
           /\ heap'[last'.ref] = right.heap[right.ref]]_vars

\* u.ap(u.of(5)) for u = Data(addOne, p1): pure(5) carries u's params.
C26_Witness ==
  /\ ApOnFunction
  /\ Self = DataObj(Fn("addOne"), "p1")
  /\ Arg = DataObj(Num(5), "p1")
  /\ last.self = 1
  /\ last.arg = 2
  /\ Result = DataObj(Num(6), "p1")

\* C27: applicative composition.  For resources u, v, w of any variant (u and
\* v holding unary functions when they are Data), once
\* pure(compose).ap(u).ap(v).ap(w) has been evaluated its result equals
\* u.ap(v.ap(w)) in variant, value, messages and params.
C27_ApComposition ==
  (last.op = "ap" /\ last.arg = 4) =>
    LET vw == Ap(SubSeq(heap, 1, 4), 3, 4)
        uvw == Ap(vw.heap, 2, vw.ref)
    IN  /\ last.kind = "return"
        /\ uvw.kind = "return"
        /\ Result = uvw.heap[uvw.ref]

C27_Witness ==
  /\ last.op = "ap"
  /\ last.arg = 4
  /\ heap[1].params = "p1"
  /\ heap[2] = DataObj(Fn("addOne"), NoParams)
  /\ heap[3] = DataObj(Fn("double"), "p1")
  /\ heap[4] = DataObj(Num(42), NoParams)
  /\ Self = DataObj(Fn("addOne.double"), "p1")
  /\ Result = DataObj(Num(85), NoParams)

\* C28: no call changes an instance in place: every instance on the heap,
\* receiver, argument or bystander, keeps its variant tag, value, messages
\* and params through every step, and no instance disappears.
C28_InstancesImmutable ==
  [][/\ Len(heap') >= Len(heap)
     /\ \A r \in 1..Len(heap) : heap'[r] = heap[r]]_vars

\* After a concat that built a Failing, receiver and argument are as built.
C28_Witness ==
  /\ last.op = "concat"
  /\ last.self = 1
  /\ last.arg = 2
  /\ last.ref = 3
  /\ Self = FailingObj(<<"error">>)
  /\ Arg = FailingObj(<<"e1", "e2">>)
  /\ Result = FailingObj(<<"error", "e1", "e2">>)

\* The predicates that hold of an instance, by name.
TruePredicates(o) == {name \in PatternFor(o) : Is(name, o)}

\* C29: for every Resource exactly one of isData, isQuery, isEmpty,
\* isFailure is true, the one named after the branch matchWith selects, and
\* hasInstance gives the same answers; for every Validation exactly one of
\* isPassing, isFailing is true.
C29_ExactlyOnePredicate ==
  /\ \A r \in Refs :
       /\ Cardinality(TruePredicates(heap[r])) = 1
       /\ \A name \in PatternFor(heap[r]) :
            HasInstance(name, heap[r]) = Is(name, heap[r])
  /\ \A r \in ResourceRefs :
       TruePredicates(heap[r]) =
         {matchWith(heap, r, ResourcePattern).called[1]}
  /\ last.op \in {"is", "hasInstance"} =>
       /\ last.kind = "return"
       /\ last.val = Bool(last.x = Self.type)
       /\ last.val = Bool(last.x = MatchWith(heap, last.self,
                                             PatternFor(Self)).called[1])

C29_Witness ==
  /\ last.op = "hasInstance"
  /\ last.x = "Empty"
  /\ Self.type = "Failure"
  /\ last.val = Bool(FALSE)
  /\ TruePredicates(Self) = {"Failure"}

AbsorbingOps == {"map", "mapSafe", "chain", "ap"}
NonData(o) == o.type \in {"Query", "Empty", "Failure"}
\* a and b have the same variant and, if Failures, the same messages.
SameVariantAndMessages(a, b) ==
  /\ a.type = b.type
  /\ a.type = "Failure" => a.messages = b.messages

\* C30: map, mapSafe, chain and ap on a Query, Empty or Failure n return an
\* instance of n's variant with, for a Failure, exactly n's messages, also
\* when the argument is a Failure with other messages; so does a second such
\* call on the result of the first.  A call on n that returns a Resource of
\* another variant is an of or an update.
C30_NonDataAbsorbing ==
  /\ []((last.op \in AbsorbingOps /\ NonData(Self)) =>
          /\ last.kind = "return"
          /\ SameVariantAndMessages(Result, Self))
  /\ []((/\ last.self > 0
         /\ last.ref > 0
         /\ NonData(Self)
         /\ Result.type /= Self.type) => last.op \in {"of", "update"})
  /\ [][(/\ last.op \in AbsorbingOps
         /\ last'.op \in AbsorbingOps
         /\ last'.self = last.ref
         /\ NonData(heap[last.self])) =>
          /\ last'.kind = "return"
          /\ SameVariantAndMessages(heap'[last'.ref], heap[last.self])]_vars

C30_Witness ==
  /\ ApOnNonData
  /\ Self = FailureObj(<<"error">>, "p1")
  /\ Arg = FailureObj(<<"e1", "e2">>, "p1")
  /\ Result = FailureObj(<<"error">>, "p1")
  /\ last.ref = 3

====
